---- MODULE Spec2Model ----
(***************************************************************************)
(* Model of the three image programs my_grayscale, my_transpose and        *)
(* my_alphablend: the driver (main), the serial kernels and the OpenMP     *)
(* kernels, with the double arithmetic of the pixel formulas.              *)
(***************************************************************************)
EXTENDS Integers, Sequences, FiniteSets, TLC

(***************************************************************************)
(* Bounds of the model.                                                    *)
(***************************************************************************)
MaxW == 5
MaxH == 3
MaxSeed == 1
MaxRot == 4

(***************************************************************************)
(* IEEE-754 double arithmetic.  Every value that occurs in the pixel       *)
(* formulas is a non-negative multiple of 2^-56 below 2^8, so a double is  *)
(* held as the integer value*2^56, in four little-endian limbs of 16 bits. *)
(* An operation computes the exact result and rounds it to 53 significant  *)
(* bits, ties to even.                                                     *)
(***************************************************************************)
LimbBase == 2 ^ 16
MantBits == 53

\* the double nearest to 0.299, 0.587, 0.114 and 0.5, times 2^56
D0299 == <<1572, 38273, 35651, 76>>
D0587 == <<33552, 51904, 17825, 150>>
D0114 == <<30409, 40894, 12058, 29>>
D05 == <<0, 0, 0, 128>>

\* a * k for a small natural k, limb by limb with carry
MulLimbs(a, k) ==
    LET t1 == a[1] * k
        t2 == a[2] * k + t1 \div LimbBase
        t3 == a[3] * k + t2 \div LimbBase
        t4 == a[4] * k + t3 \div LimbBase
    IN  <<t1 % LimbBase, t2 % LimbBase, t3 % LimbBase, t4 % LimbBase>>

\* a + b, limb by limb with carry
AddLimbs(a, b) ==
    LET t1 == a[1] + b[1]
        t2 == a[2] + b[2] + t1 \div LimbBase
        t3 == a[3] + b[3] + t2 \div LimbBase
        t4 == a[4] + b[4] + t3 \div LimbBase
    IN  <<t1 % LimbBase, t2 % LimbBase, t3 % LimbBase, t4 % LimbBase>>

RECURSIVE BitLenInt(_)
BitLenInt(n) == IF n = 0 THEN 0 ELSE 1 + BitLenInt(n \div 2)

\* number of significant bits of a
BitLen(a) ==
    IF a[4] # 0 THEN 48 + BitLenInt(a[4])
    ELSE IF a[3] # 0 THEN 32 + BitLenInt(a[3])
    ELSE IF a[2] # 0 THEN 16 + BitLenInt(a[2])
    ELSE BitLenInt(a[1])

\* round an exact result to the nearest double, ties to even
RoundDouble(a) ==
    LET L == BitLen(a)
    IN  IF L <= MantBits THEN a
        ELSE LET s     == L - MantBits
                 unit  == 2 ^ s
                 low   == a[1] % unit
                 trunc == [a EXCEPT ![1] = a[1] - low]
                 odd   == (a[1] \div unit) % 2 = 1
                 up    == low * 2 > unit \/ (low * 2 = unit /\ odd)
             IN  IF up THEN AddLimbs(trunc, <<unit, 0, 0, 0>>) ELSE trunc

\* c * x for a double constant c and a JSAMPLE x promoted to double
FMul(c, x) == RoundDouble(MulLimbs(c, x))

\* a + b for doubles a and b
FAdd(a, b) == RoundDouble(AddLimbs(a, b))

\* (unsigned char)d : truncation toward zero, then the low 8 bits
ToUChar(d) == (d[4] \div 256) % 256

\* (unsigned char)(0.299*r + 0.587*g + 0.114*b)
Luma(r, g, b) ==
    ToUChar(FAdd(FAdd(FMul(D0299, r), FMul(D0587, g)), FMul(D0114, b)))

\* (unsigned char)(0.5*a + 0.5*b)
Blend(a, b) == ToUChar(FAdd(FMul(D05, a), FMul(D05, b)))

(***************************************************************************)
(* Images (image_t).  A pixel is the triple <<R, G, B>> of one column of a *)
(* row; a buffer maps <<row, col>> to a pixel.                             *)
(***************************************************************************)
Cells(w, h) == (0 .. h - 1) \X (0 .. w - 1)

\* contents of freshly malloc'ed row memory
Undef == <<-1, -1, -1>>

\* an image_t pointer that has not been assigned
NoImage == [width |-> 0, height |-> 0, buf |-> <<>>]

\* img->width = w; img->height = h; one row of 3*w samples per i < h
new_image(w, h) ==
    [width |-> w, height |-> h, buf |-> [c \in Cells(w, h) |-> Undef]]

\* pixel values of the decoded files
Palette ==
    << <<255, 0, 0>>, <<1, 1, 1>>, <<0, 0, 255>>, <<0, 72, 24>>,
       <<255, 255, 255>>, <<0, 0, 0>>, <<2, 2, 2>> >>

\* the image that decoding a file of w x h pixels leaves in memory
Decode(w, h, seed) ==
    [width |-> w, height |-> h,
     buf |-> [c \in Cells(w, h) |->
                Palette[((seed + c[1] * w + c[2]) % Len(Palette)) + 1]]]

\* values an access past the end of an allocation may yield
Garbage == { <<13, 13, 13>>, <<200, 100, 50>> }

\* how the allocator lays out the rows of a buffer:
\*   slack  - every row is followed by unused bytes that absorb an overrun
\*   packed - row i+1 starts where row i ends
\*   guard  - an access past the end of an allocation faults
Heaps == {"slack", "packed", "guard"}

(***************************************************************************)
(* The memory a kernel works on: the output buffer, for every output cell  *)
(* the loop iterations that stored to it (in order), and the accesses made.*)
(***************************************************************************)
Mem(img, log, ac) ==
    [width |-> img.width, height |-> img.height, buf |-> img.buf,
     log |-> log, acc |-> ac]

InRange(img, row, col) ==
    row >= 0 /\ row < img.height /\ col >= 0 /\ col < img.width

\* inbuf[row][col*3 .. col*3+2]; g is what memory past the end holds
LoadPx(img, row, col, g) ==
    IF InRange(img, row, col) THEN img.buf[<<row, col>>] ELSE g

\* the access inbuf[row][col*3 ..] is recorded
ReadPx(m, name, row, col) ==
    [m EXCEPT !.acc = @ \cup {[op |-> "r", buf |-> name, row |-> row, col |-> col]}]

\* outbuf[row][col*3 .. col*3+2] = px, executed by loop iteration it.  A store
\* outside the rows is absorbed by allocator slack, or lands in the cell with
\* the same linear index when the rows are packed back to back.
StorePx(m, layout, it, row, col, px) ==
    LET lin == row * m.width + col
        a   == [op |-> "w", buf |-> "out", row |-> row, col |-> col]
    IN  IF InRange(m, row, col)
        THEN [m EXCEPT !.buf[<<row, col>>] = px,
                       !.log[<<row, col>>] = Append(@, it),
                       !.acc = @ \cup {a}]
        ELSE IF layout = "packed" /\ col >= 0 /\ row >= 0
                /\ lin < m.width * m.height
        THEN [m EXCEPT !.buf[<<lin \div m.width, lin % m.width>>] = px,
                       !.log[<<lin \div m.width, lin % m.width>>] = Append(@, it),
                       !.acc = @ \cup {a}]
        ELSE [m EXCEPT !.acc = @ \cup {a}]

\* Always TRUE.  TLC hands an operator its arguments unevaluated; a loop that
\* tests Evaluated(m) before its next pass computes the memory left by the
\* pass before, so the loops below run pass by pass as the code does.
Evaluated(m) == m.height = m.height

(***************************************************************************)
(* grayscale_serial                                                        *)
(***************************************************************************)
\* y = (unsigned char)(...); the three samples of the pixel are set to y
GrayPx(p) == LET y == Luma(p[1], p[2], p[3]) IN <<y, y, y>>

\* the body of the inner loop: pixel (i, j)
GrayscaleStore(inbuf, m, layout, it, i, j, g) ==
    StorePx(ReadPx(m, "in1", i, j), layout, it, i, j, GrayPx(LoadPx(inbuf, i, j, g)))

RECURSIVE GrayscaleSerialJ(_, _, _, _, _)
GrayscaleSerialJ(inbuf, m, width, i, j) ==
    IF j < width /\ Evaluated(m)
    THEN GrayscaleSerialJ(inbuf, GrayscaleStore(inbuf, m, "slack", i, i, j, Undef),
                          width, i, j + 1)
    ELSE m

RECURSIVE GrayscaleSerialI(_, _, _, _, _)
GrayscaleSerialI(inbuf, m, width, height, i) ==
    IF i < height /\ Evaluated(m)
    THEN GrayscaleSerialI(inbuf, GrayscaleSerialJ(inbuf, m, width, i, 0),
                          width, height, i + 1)
    ELSE m

grayscale_serial(inbuf, m, width, height) ==
    GrayscaleSerialI(inbuf, m, width, height, 0)

\* one pass of the inner loop of grayscale_parallel: columns j .. j+3 of row i
GrayscaleParallelBody(inbuf, m, layout, i, j, g) ==
    LET y1 == GrayPx(LoadPx(inbuf, i, j, g[0]))
        y2 == GrayPx(LoadPx(inbuf, i, j + 1, g[1]))
        y3 == GrayPx(LoadPx(inbuf, i, j + 2, g[2]))
        y4 == GrayPx(LoadPx(inbuf, i, j + 3, g[3]))
        r1 == ReadPx(m, "in1", i, j)
        r2 == ReadPx(r1, "in1", i, j + 1)
        r3 == ReadPx(r2, "in1", i, j + 2)
        r4 == ReadPx(r3, "in1", i, j + 3)
        w1 == StorePx(r4, layout, i, i, j, y1)
        w2 == StorePx(w1, layout, i, i, j + 1, y2)
        w3 == StorePx(w2, layout, i, i, j + 2, y3)
    IN  StorePx(w3, layout, i, i, j + 3, y4)

(***************************************************************************)
(* transpose_serial and transpose_parallel                                 *)
(***************************************************************************)
\* TransposeStore with the third sample copied from the second one
TransposeStoreWrongSample(inbuf, m, layout, it, width, i, j, g) ==
    LET p == LoadPx(inbuf, i, j, g)
    IN  StorePx(ReadPx(m, "in1", i, j), layout, it, width - 1 - j, i,
                <<p[1], p[2], p[2]>>)

\* outbuf[width-1-j][i*3 ..] = inbuf[i][j*3 ..], the three samples
TransposeStore(inbuf, m, layout, it, width, i, j, g) ==
    LET p == LoadPx(inbuf, i, j, g)
    IN  StorePx(ReadPx(m, "in1", i, j), layout, it, width - 1 - j, i,
                <<p[1], p[2], p[3]>>)

RECURSIVE TransposeSerialJ(_, _, _, _, _)
TransposeSerialJ(inbuf, m, width, i, j) ==
    IF j < width /\ Evaluated(m)
    THEN TransposeSerialJ(inbuf,
                          TransposeStore(inbuf, m, "slack", i, width, i, j, Undef),
                          width, i, j + 1)
    ELSE m

RECURSIVE TransposeSerialI(_, _, _, _, _)
TransposeSerialI(inbuf, m, width, height, i) ==
    IF i < height /\ Evaluated(m)
    THEN TransposeSerialI(inbuf, TransposeSerialJ(inbuf, m, width, i, 0),
                          width, height, i + 1)
    ELSE m

transpose_serial(inbuf, m, width, height) ==
    TransposeSerialI(inbuf, m, width, height, 0)

\* one pass of the inner loop of transpose_parallel: column j of rows i, i+1
TransposeParallelBody(inbuf, m, layout, width, i, j, g) ==
    TransposeStore(inbuf,
                   TransposeStore(inbuf, m, layout, i, width, i, j, g[0]),
                   layout, i, width, i + 1, j, g[1])

(***************************************************************************)
(* alphablend_serial and alphablend_parallel                               *)
(***************************************************************************)
BlendPx(p, q) == <<Blend(p[1], q[1]), Blend(p[2], q[2]), Blend(p[3], q[3])>>

\* the three stores of pixel (i, j)
AlphablendStore(inbuf1, inbuf2, m, layout, it, i, j, g1, g2) ==
    StorePx(ReadPx(ReadPx(m, "in1", i, j), "in2", i, j), layout, it, i, j,
            BlendPx(LoadPx(inbuf1, i, j, g1), LoadPx(inbuf2, i, j, g2)))

RECURSIVE AlphablendSerialJ(_, _, _, _, _, _)
AlphablendSerialJ(inbuf1, inbuf2, m, width, i, j) ==
    IF j < width /\ Evaluated(m)
    THEN AlphablendSerialJ(inbuf1, inbuf2,
                           AlphablendStore(inbuf1, inbuf2, m, "slack", i, i, j,
                                           Undef, Undef),
                           width, i, j + 1)
    ELSE m

RECURSIVE AlphablendSerialI(_, _, _, _, _, _)
AlphablendSerialI(inbuf1, inbuf2, m, width, height, i) ==
    IF i < height /\ Evaluated(m)
    THEN AlphablendSerialI(inbuf1, inbuf2,
                           AlphablendSerialJ(inbuf1, inbuf2, m, width, i, 0),
                           width, height, i + 1)
    ELSE m

alphablend_serial(inbuf1, inbuf2, m, width, height) ==
    AlphablendSerialI(inbuf1, inbuf2, m, width, height, 0)

\* one pass of the inner loop of alphablend_parallel: columns j .. j+3 of row i
AlphablendParallelBody(inbuf1, inbuf2, m, layout, i, j, g1, g2) ==
    LET w1 == AlphablendStore(inbuf1, inbuf2, m, layout, i, i, j, g1[0], g2[0])
        w2 == AlphablendStore(inbuf1, inbuf2, w1, layout, i, i, j + 1, g1[1], g2[1])
        w3 == AlphablendStore(inbuf1, inbuf2, w2, layout, i, i, j + 2, g1[2], g2[2])
    IN  AlphablendStore(inbuf1, inbuf2, w3, layout, i, i, j + 3, g1[3], g2[3])

(***************************************************************************)
(* The programs.                                                           *)
(***************************************************************************)
VARIABLES
    prog,       \* which of the three programs runs
    openmp,     \* TRUE when the program was built with _OPENMP defined
    heap,       \* the allocator's layout of the rows, "" before they exist
    argc,       \* argument count the process was started with
    pc,         \* position of main
    status,     \* exit status of the process, -1 while it runs
    cause,      \* the fatal condition that ended the process, "" if none
    stdout,     \* messages written to standard output
    stderr,     \* messages written to standard error
    in_img1,    \* first decoded input
    in_img2,    \* second decoded input (my_alphablend)
    out_img,    \* the output image
    width,      \* main's local width
    height,     \* main's local height
    dest,       \* destination file: "absent", "written"
    todo,       \* iterations of the parallel loop no thread has started
    wk,         \* the iterations threads are running, each with its j
    wlog,       \* per output cell: the iterations that stored to it
    acc,        \* the buffer accesses the kernel has made
    rot,        \* image held by the repeated-transpose harness
    rot0,       \* the image the harness started from
    nrot        \* number of transposes the harness has applied

vars == <<prog, openmp, heap, argc, pc, status, cause, stdout, stderr,
          in_img1, in_img2, out_img, width, height, dest, todo, wk, wlog,
          acc, rot, rot0, nrot>>

harness == <<rot, rot0, nrot>>
build   == <<prog, openmp, argc>>
streams == <<stdout, stderr>>
inputs  == <<in_img1, in_img2>>
locals  == <<width, height>>
kernel  == <<heap, out_img, wlog, acc>>
threads == <<todo, wk>>

Programs == {"grayscale", "transpose", "alphablend"}
ArgCounts == {1, 3, 4}

\* the argument count main accepts
WantedArgc == IF prog = "alphablend" THEN 4 ELSE 3

Init ==
    /\ prog \in Programs
    /\ openmp \in BOOLEAN
    /\ heap = ""
    /\ argc \in ArgCounts
    /\ pc = "start"
    /\ status = -1
    /\ cause = ""
    /\ stdout = <<>>
    /\ stderr = <<>>
    /\ in_img1 = NoImage
    /\ in_img2 = NoImage
    /\ out_img = NoImage
    /\ width = 0
    /\ height = 0
    /\ dest = "absent"
    /\ todo = {}
    /\ wk = <<>>
    /\ wlog = <<>>
    /\ acc = {}
    /\ rot = NoImage
    /\ rot0 = NoImage
    /\ nrot = 0

\* exit(EXIT_FAILURE)
Exit(why) ==
    /\ pc' = "exited"
    /\ status' = 1
    /\ cause' = why

\* CheckArgs with the message sent to stderr
CheckArgsOnStderr ==
    /\ pc = "start"
    /\ \/ /\ argc # WantedArgc
          /\ stderr' = Append(stderr, "Illegal parameters\n")
          /\ Exit("args")
          /\ UNCHANGED stdout
       \/ /\ argc = WantedArgc
          /\ pc' = "read1"
          /\ UNCHANGED <<streams, status, cause>>
    /\ UNCHANGED <<build, inputs, locals, dest, kernel, threads, harness>>

\* if (argc != 3) { printf("Illegal parameters\n"); exit(EXIT_FAILURE); }
CheckArgs ==
    /\ pc = "start"
    /\ \/ /\ argc # WantedArgc
          /\ stdout' = Append(stdout, "Illegal parameters\n")
          /\ Exit("args")
       \/ /\ argc = WantedArgc
          /\ pc' = "read1"
          /\ UNCHANGED <<stdout, status, cause>>
    /\ UNCHANGED <<build, stderr, inputs, locals, dest, kernel, threads, harness>>

\* read_jpg(fname): fopen, malloc of the image_t, new_image, decoding
ReadJpg ==
    /\ pc \in {"read1", "read2"}
    /\ \/ /\ stderr' = Append(stderr, "Can't open input file.\n")
          /\ Exit("open_in")
          /\ UNCHANGED inputs
       \/ /\ Exit("alloc")
          /\ UNCHANGED <<stderr, inputs>>
       \/ \E w \in 1 .. MaxW, h \in 1 .. MaxH, seed \in 0 .. MaxSeed :
            /\ IF pc = "read1"
               THEN in_img1' = Decode(w, h, seed) /\ UNCHANGED in_img2
               ELSE in_img2' = Decode(w, h, seed) /\ UNCHANGED in_img1
            /\ pc' = IF pc = "read1" /\ prog = "alphablend" THEN "read2" ELSE "dims"
            /\ UNCHANGED <<stderr, status, cause>>
    /\ UNCHANGED <<build, stdout, locals, dest, kernel, threads, harness>>

\* width = in_img->width; height = in_img->height;
GetDims ==
    /\ pc = "dims"
    /\ width' = in_img1.width
    /\ height' = in_img1.height
    /\ pc' = IF prog = "alphablend" THEN "check" ELSE "alloc"
    /\ UNCHANGED <<build, status, cause, streams, inputs, dest, kernel, threads,
                   harness>>

\* Mismatch with && in place of ||
MismatchBoth(w, h, img2) == w # img2.width /\ h # img2.height

\* the test main makes of the two inputs' dimensions
Mismatch(w, h, img2) == w # img2.width \/ h # img2.height

\* if (width != in_img2->width || height != in_img2->height) { printf; exit }
CheckDims ==
    /\ pc = "check"
    /\ \/ /\ Mismatch(width, height, in_img2)
          /\ stdout' = Append(stdout, "Error\n")
          /\ Exit("mismatch")
       \/ /\ ~Mismatch(width, height, in_img2)
          /\ pc' = "alloc"
          /\ UNCHANGED <<stdout, status, cause>>
    /\ UNCHANGED <<build, stderr, inputs, locals, dest, kernel, threads, harness>>

\* the dimensions main passes to new_image for the output
OutWidth == IF prog = "transpose" THEN height ELSE width
OutHeight == IF prog = "transpose" THEN width ELSE height

\* out_img = malloc(sizeof(image_t)); new_image(out_img, ...)
AllocOut ==
    /\ pc = "alloc"
    /\ \/ /\ Exit("alloc")
          /\ UNCHANGED kernel
       \/ /\ out_img' = new_image(OutWidth, OutHeight)
          /\ heap' \in Heaps
          /\ wlog' = [c \in Cells(OutWidth, OutHeight) |-> <<>>]
          /\ pc' = "kernel"
          /\ UNCHANGED <<acc, status, cause>>
    /\ UNCHANGED <<build, streams, inputs, locals, dest, threads, harness>>

\* the kernel's result is taken over into the program state
Commit(m) ==
    /\ out_img' = [out_img EXCEPT !.buf = m.buf]
    /\ wlog' = m.log
    /\ acc' = m.acc
    /\ UNCHANGED heap

\* the build without OpenMP: main calls the serial kernel, then prints the time
RunSerial ==
    /\ pc = "kernel"
    /\ ~openmp
    /\ LET m == Mem(out_img, wlog, acc)
       IN  \/ /\ prog = "grayscale"
              /\ Commit(grayscale_serial(in_img1, m, width, height))
           \/ /\ prog = "transpose"
              /\ Commit(transpose_serial(in_img1, m, width, height))
           \/ /\ prog = "alphablend"
              /\ Commit(alphablend_serial(in_img1, in_img2, m, width, height))
    /\ stdout' = Append(stdout, "TIME")
    /\ pc' = "write"
    /\ UNCHANGED <<build, status, cause, stderr, inputs, locals, dest, threads,
                   harness>>

\* the iterations of the parallel loop: every row, or every second row
Iterations ==
    IF prog = "transpose" THEN {i \in 0 .. height - 1 : i % 2 = 0}
    ELSE 0 .. height - 1

\* #pragma omp parallel for: the iterations are handed to the team
Fork ==
    /\ pc = "kernel"
    /\ openmp
    /\ todo' = Iterations
    /\ pc' = "par"
    /\ UNCHANGED <<build, status, cause, streams, inputs, locals, dest, kernel,
                   wk, harness>>

\* a thread of the team starts an iteration nobody has started, with j = 0;
\* the team is as large as the loop, which admits the schedules of any team
Claim ==
    /\ pc = "par"
    /\ \E i \in todo :
         /\ wk' = [k \in DOMAIN wk \cup {i} |-> IF k = i THEN 0 ELSE wk[k]]
         /\ todo' = todo \ {i}
    /\ UNCHANGED <<build, pc, status, cause, streams, inputs, locals, dest, kernel,
                   harness>>

\* dimensions of the buffer an access names
BufOf(name) ==
    IF name = "in1" THEN in_img1 ELSE IF name = "in2" THEN in_img2 ELSE out_img

\* the access lies outside the rows and columns of its buffer
Overrun(a) == ~InRange(BufOf(a.buf), a.row, a.col)

\* the first of the overrunning accesses of one pass, in program order
FirstFault(bad) ==
    CHOOSE a \in bad : /\ a.op = "r"
                       /\ a.buf = "in1"
                       /\ \A b \in bad : a.col <= b.col

\* the stride of the inner loop
Stride == IF prog = "transpose" THEN 1 ELSE 4

\* what the pass of iteration i leaves behind: with a guarded heap the first
\* overrun kills the process, otherwise the pass completes, j advances and the
\* iteration ends when j reaches width
Advance(i, m) ==
    LET bad == {a \in m.acc \ acc : Overrun(a)}
    IN  IF heap = "guard" /\ bad # {}
        THEN /\ pc' = "killed"
             /\ status' = 139
             /\ acc' = acc \cup {FirstFault(bad)}
             /\ UNCHANGED <<heap, out_img, wlog, wk>>
        ELSE /\ Commit(m)
             /\ wk' = IF wk[i] + Stride < width
                      THEN [wk EXCEPT ![i] = @ + Stride]
                      ELSE [k \in DOMAIN wk \ {i} |-> wk[k]]
             /\ UNCHANGED <<pc, status>>

\* what a pass may find past the end of a row: the value only matters when
\* the pass overruns and the overrun is neither absorbed nor fatal
Found(overruns) ==
    IF overruns /\ heap = "packed" THEN Garbage ELSE {CHOOSE g \in Garbage : TRUE}

\* one pass of the inner loop of the parallel kernel, in iteration i
Step(i) ==
    /\ pc = "par"
    /\ i \in DOMAIN wk
    /\ LET j == wk[i]
           m == Mem(out_img, wlog, acc)
       IN  \/ /\ prog = "grayscale"
              /\ \E g \in Found(j + 3 >= width) :
                   Advance(i, GrayscaleParallelBody(in_img1, m, heap, i, j,
                                                    [k \in 0 .. 3 |-> g]))
           \/ /\ prog = "transpose"
              /\ \E g \in Found(i + 1 >= height) :
                   Advance(i, TransposeParallelBody(in_img1, m, heap, width, i, j,
                                                    [k \in 0 .. 1 |-> g]))
           \/ /\ prog = "alphablend"
              /\ \E g1 \in Found(j + 3 >= width), g2 \in Found(j + 3 >= width) :
                   Advance(i, AlphablendParallelBody(in_img1, in_img2, m, heap,
                                                     i, j, [k \in 0 .. 3 |-> g1],
                                                     [k \in 0 .. 3 |-> g2]))
    /\ UNCHANGED <<build, cause, streams, inputs, locals, dest, todo, harness>>

\* end of the parallel region: every iteration has run; main prints the time
Join ==
    /\ pc = "par"
    /\ todo = {}
    /\ DOMAIN wk = {}
    /\ stdout' = Append(stdout, "TIME")
    /\ pc' = "write"
    /\ UNCHANGED <<build, status, cause, stderr, inputs, locals, dest, kernel,
                   threads, harness>>

\* write_jpg(out_img, out_file); return 0;
WriteJpg ==
    /\ pc = "write"
    /\ \/ /\ stderr' = Append(stderr, "Can't open output file.\n")
          /\ Exit("open_out")
          /\ UNCHANGED dest
       \/ /\ dest' = "written"
          /\ pc' = "done"
          /\ status' = 0
          /\ UNCHANGED <<stderr, cause>>
    /\ UNCHANGED <<build, stdout, inputs, locals, kernel, threads, harness>>

Next ==
    \/ CheckArgs
    \/ ReadJpg
    \/ GetDims
    \/ CheckDims
    \/ AllocOut
    \/ RunSerial
    \/ Fork
    \/ Claim
    \/ \E i \in 0 .. MaxH - 1 : Step(i)
    \/ Join
    \/ WriteJpg

Spec == Init /\ [][Next]_vars

(***************************************************************************)
(* Repeated transposition: transpose_serial applied again and again, each  *)
(* time into a buffer main would allocate, new_image(out_img, height,      *)
(* width).                                                                 *)
(***************************************************************************)
\* an output buffer no kernel has touched
Fresh(w, h) == Mem(new_image(w, h), [c \in Cells(w, h) |-> <<>>], {})

InitRot ==
    /\ prog = "transpose"
    /\ openmp = FALSE
    /\ heap = ""
    /\ argc = 3
    /\ pc = "harness"
    /\ status = -1
    /\ cause = ""
    /\ stdout = <<>>
    /\ stderr = <<>>
    /\ in_img1 = NoImage
    /\ in_img2 = NoImage
    /\ out_img = NoImage
    /\ width = 0
    /\ height = 0
    /\ dest = "absent"
    /\ todo = {}
    /\ wk = <<>>
    /\ wlog = <<>>
    /\ acc = {}
    /\ \E w \in 1 .. MaxW, h \in 1 .. MaxH, seed \in 0 .. MaxSeed :
         rot0 = Decode(w, h, seed)
    /\ rot = rot0
    /\ nrot = 0

Rotate ==
    /\ nrot < MaxRot
    /\ LET m == transpose_serial(rot, Fresh(rot.height, rot.width),
                                 rot.width, rot.height)
       IN  rot' = [width |-> m.width, height |-> m.height, buf |-> m.buf]
    /\ nrot' = nrot + 1
    /\ UNCHANGED <<build, heap, pc, status, cause, streams, inputs, out_img,
                   locals, dest, threads, wlog, acc, rot0>>

NextRot == Rotate

SpecRot == InitRot /\ [][NextRot]_vars

(***************************************************************************)
(* Properties.                                                             *)
(***************************************************************************)
\* the kernel has returned to main
KernelDone == pc \in {"write", "done"} \/ (pc = "exited" /\ cause = "open_out")

\* C1: whatever rows the threads take and in whatever order, for every width
\* (multiples of 4 or not) grayscale_parallel leaves in the output buffer
\* exactly the bytes grayscale_serial leaves there.
C1_ParallelMatchesSerial ==
    (prog = "grayscale" /\ openmp /\ KernelDone) =>
        out_img.buf = grayscale_serial(in_img1, Fresh(width, height),
                                       width, height).buf

\* C2: when the transpose kernel (serial or parallel) has finished,
\* output[W-1-j][i] = input[i][j] for every input cell, and every cell of the
\* output buffer has been stored to exactly once.
C2_TransposeBijection ==
    (prog = "transpose" /\ KernelDone) =>
        /\ \A i \in 0 .. height - 1, j \in 0 .. width - 1 :
             out_img.buf[<<width - 1 - j, i>>] = in_img1.buf[<<i, j>>]
        /\ \A c \in DOMAIN wlog : Len(wlog[c]) = 1

InputsDiffer ==
    /\ prog = "alphablend"
    /\ in_img1 # NoImage
    /\ in_img2 # NoImage
    /\ (in_img1.width # in_img2.width \/ in_img1.height # in_img2.height)

\* C4: when the two decoded inputs of my_alphablend differ in width or height,
\* main ends the process with a non-zero status once it has compared them,
\* and at no point is an output buffer allocated, a pixel computed or the
\* destination written; the kernel only runs on inputs of equal dimensions.
C4_MismatchRejected ==
    /\ InputsDiffer =>
         /\ pc \in {"dims", "check", "exited"}
         /\ pc = "exited" => status # 0 /\ cause = "mismatch"
         /\ out_img = NoImage
         /\ wlog = <<>>
         /\ acc = {}
         /\ dest = "absent"
    /\ (prog = "alphablend" /\ (pc \in {"kernel", "par"} \/ acc # {})) =>
         in_img1.width = in_img2.width /\ in_img1.height = in_img2.height

\* inputs of equal width and different height have been rejected
C4_Witness ==
    /\ InputsDiffer
    /\ in_img1.width = in_img2.width
    /\ pc = "exited"
    /\ cause = "mismatch"

\* C5 as stated: every fatal error path leaves a diagnostic on stderr and
\* ends the process with a non-zero status.
C5_DiagnosticOnStderr ==
    pc = "exited" => status # 0 /\ stderr # <<>>

\* C5 amended: every fatal error path ends the process with a non-zero
\* status; a file that cannot be opened is reported on stderr, a wrong
\* argument count and a dimension mismatch are reported on stdout only, and
\* an allocation failure is not reported at all.
C5_FatalPaths ==
    pc = "exited" =>
        /\ status # 0
        /\ cause \in {"args", "open_in", "open_out", "alloc", "mismatch"}
        /\ cause = "args" =>
             stdout = <<"Illegal parameters\n">> /\ stderr = <<>>
        /\ cause = "mismatch" => stdout = <<"Error\n">> /\ stderr = <<>>
        /\ cause = "alloc" => stdout = <<>> /\ stderr = <<>>
        /\ cause = "open_in" =>
             stdout = <<>> /\ stderr = <<"Can't open input file.\n">>
        /\ cause = "open_out" =>
             stdout = <<"TIME">> /\ stderr = <<"Can't open output file.\n">>

\* a wrong argument count has ended the process
C5_Witness ==
    pc = "exited" /\ cause = "args" /\ status = 1 /\ stdout # <<>>

\* C6: the grayscale kernel turns every input pixel (R, G, B) into (y, y, y)
\* at the same row and column, with y = floor((299R + 587G + 114B) / 1000),
\* a value in 0..255; so (255, 0, 0) becomes (76, 76, 76).
C6_LumaIsFloor ==
    (prog = "grayscale" /\ ~openmp /\ KernelDone) =>
        \A c \in DOMAIN in_img1.buf :
            LET p == in_img1.buf[c]
                y == (299 * p[1] + 587 * p[2] + 114 * p[3]) \div 1000
            IN  y \in 0 .. 255 /\ out_img.buf[c] = <<y, y, y>>

\* C7: the alpha-blend kernel gives the same output for (A, B) as for (B, A),
\* and every output sample is floor((a + b) / 2), a value in 0..255.
C7_BlendCommutes ==
    (prog = "alphablend" /\ KernelDone) =>
        /\ out_img.buf = alphablend_serial(in_img2, in_img1, Fresh(width, height),
                                           width, height).buf
        /\ \A c \in DOMAIN out_img.buf, k \in 1 .. 3 :
             /\ out_img.buf[c][k] = (in_img1.buf[c][k] + in_img2.buf[c][k]) \div 2
             /\ out_img.buf[c][k] \in 0 .. 255

\* what the serial kernel of the running program leaves in a fresh buffer
SerialResult ==
    IF prog = "grayscale"
    THEN grayscale_serial(in_img1, Fresh(width, height), width, height)
    ELSE IF prog = "transpose"
    THEN transpose_serial(in_img1, Fresh(height, width), width, height)
    ELSE alphablend_serial(in_img1, in_img2, Fresh(width, height), width, height)

\* C8: in the parallel kernels no output cell is stored to by two different
\* loop iterations and no store goes to an input buffer, so that the output
\* is the same whatever the interleaving.
C8_DisjointWrites ==
    openmp =>
        /\ \A c \in DOMAIN wlog : \A a, b \in 1 .. Len(wlog[c]) :
             wlog[c][a] = wlog[c][b]
        /\ \A a \in acc : a.op = "w" => a.buf = "out"
        /\ KernelDone => out_img.buf = SerialResult.buf

\* C9: every column grayscale_parallel and alphablend_parallel read in an
\* input row or write in an output row lies in 0 .. W-1.
C9_ColumnsInRow ==
    (openmp /\ prog \in {"grayscale", "alphablend"}) =>
        \A a \in acc : a.col >= 0 /\ a.col < width

\* C10: every input row transpose_parallel reads lies in 0 .. H-1, and every
\* output cell it writes has its row in 0 .. W-1 and its column in 0 .. H-1.
C10_RowPairsInRange ==
    (openmp /\ prog = "transpose") =>
        \A a \in acc :
            /\ a.op = "r" => a.row >= 0 /\ a.row < height
            /\ a.op = "w" => /\ a.row >= 0 /\ a.row < width
                             /\ a.col >= 0 /\ a.col < height

====
